---- MODULE Spec2Model ----
(***************************************************************************)
(* A model of bot.py: the three JSON-backed stores (ScheduleStore,         *)
(* TaskStore, ConfigStore), the schedule commands, and the two polling     *)
(* loops of BotClient (_schedule_loop / _check_schedules and _hourly_loop  *)
(* / _check_hourly_task_list).                                             *)
(*                                                                         *)
(* Strings the code compares or formats ("HH:MM", ISO dates, dict keys)    *)
(* are sequences of one-character strings, so that formatting is computed  *)
(* and string equality is decided character by character.                  *)
(*                                                                         *)
(* Three specifications share the variables:                               *)
(*   Spec        schedule store + schedule commands + schedule-check loop  *)
(*   SpecStore   the public operations of the three stores, and reload     *)
(*   SpecHourly  the hourly-digest loop and /task auto, clock in seconds   *)
(***************************************************************************)
EXTENDS Integers, Sequences, FiniteSets, TLC

VARIABLES
    sItems, sNextId, sDisk,      \* ScheduleStore._items, ._next_id, schedules.json
    tItems, tNextId, tDisk,      \* TaskStore._items, ._next_id, tasks.json
    cData, cDisk,                \* ConfigStore._data["hourly_task_list"], config.json
    sIssued, tIssued,            \* history: the ids each store has assigned, in order
    ret,                         \* what the last store operation returned / wrote
    reply,                       \* text of the last command reply
    now,                         \* the local wall clock, in seconds
    client,                      \* discord.Client: "starting", "ready", "closed"
    sPc, sNow, sNowTime, sToday, \* _schedule_loop: position, captured now / now_time / today
    sSnap, sIdx, sWake,          \* the list returned by store.all(), loop index, sleep deadline
    sendCount, attempts,         \* history: successful sends per (id, date); attempts in this tick
    failed,                      \* history: ids whose delivery failed in the latest tick
    hPc, hNow, hWake, hIdx,      \* _hourly_loop: position, captured now, sleep deadline, guild index
    hSince, observed, digests,   \* history: polling start, window ticks per hour, sends per guild/hour
    hEvent                       \* what the last step of the hourly loop did, if the last step was one

storeVars == <<sItems, sNextId, sDisk>>
taskVars == <<tItems, tNextId, tDisk>>
configVars == <<cData, cDisk>>
schedLoopVars == <<sPc, sNow, sNowTime, sToday, sSnap, sIdx, sWake>>
schedHistVars == <<sendCount, attempts, failed>>
hourlyVars == <<hPc, hNow, hWake, hIdx, hSince, observed, digests>>
issuedVars == <<sIssued, tIssued>>
vars == <<storeVars, taskVars, configVars, issuedVars, ret, reply, now, client, schedLoopVars, schedHistVars, hourlyVars, hEvent>>

(***************************************************************************)
(* Program constants                                                       *)
(***************************************************************************)
CHECK_INTERVAL_SECONDS == 30
HOURLY_CHECK_SECONDS == 30
\* _check_hourly_task_list returns when now.second > 5
WINDOW_LAST_SECOND == 5
\* load(): next id of an empty store
FIRST_ID == 1

(***************************************************************************)
(* Bounds                                                                  *)
(***************************************************************************)
\* the calendar, shortened: minutes in an hour, hours in a day
MinutesPerHour == 2
HoursPerDay == 1
\* steps of CHECK_INTERVAL_SECONDS the clock takes in Spec; hours it runs in SpecHourly
ClockSteps == 7
MaxHours == 2
\* ids a store hands out before add is no longer taken (Spec / SpecStore)
MaxId == 2
StoreMaxId == 2
\* seconds by which asyncio.sleep may wake the hourly loop late, and the network
\* calls of one hourly tick may take
MaxLate == 1
\* how long after the start of the clock the client may still be starting
MaxStart == 6
MaxTasks == 2

SecondsPerMinute == 60
SecondsPerHour == SecondsPerMinute * MinutesPerHour
SecondsPerDay == SecondsPerHour * HoursPerDay

(***************************************************************************)
(* datetime: fields of a clock value, strftime("%H:%M"), date.isoformat()  *)
(***************************************************************************)
DigitChars == <<"0", "1", "2", "3", "4", "5", "6", "7", "8", "9">>

IsDigit(c) == \E i \in 1..10 : DigitChars[i] = c

DigitVal(c) == CHOOSE i \in 0..9 : DigitChars[i + 1] = c

Pad2(n) == <<DigitChars[((n \div 10) % 10) + 1], DigitChars[(n % 10) + 1]>>

DateOf(t) == (t \div SecondsPerDay) + 1

HourOf(t) == (t % SecondsPerDay) \div SecondsPerHour

MinuteOf(t) == (t % SecondsPerHour) \div SecondsPerMinute

SecondOf(t) == t % SecondsPerMinute

\* the index of the clock hour t lies in
HourIndex(t) == t \div SecondsPerHour

\* now.strftime("%H:%M")
StrfTime(t) == Pad2(HourOf(t)) \o <<":">> \o Pad2(MinuteOf(t))

\* date.isoformat() of day d of January 2024
IsoFormat(d) == <<"2", "0", "2", "4", "-", "0", "1", "-">> \o Pad2(d)

\* datetime.now().isoformat(timespec="seconds")
IsoDateTime(t) == IsoFormat(DateOf(t)) \o <<"T">> \o Pad2(HourOf(t)) \o <<":">> \o Pad2(MinuteOf(t)) \o <<":">> \o Pad2(SecondOf(t))

\* Python's None where a str is expected, and where an int is expected
None == <<"None">>
NoneInt == -1

(***************************************************************************)
(* _is_valid_time: datetime.strptime(value, "%H:%M") does not raise.       *)
(* %H matches one or two digits up to 23, %M one or two digits up to 59,   *)
(* and nothing may remain.                                                 *)
(***************************************************************************)
AllDigits(s) == \A i \in 1..Len(s) : IsDigit(s[i])

NumVal(s) == IF Len(s) = 1 THEN DigitVal(s[1]) ELSE 10 * DigitVal(s[1]) + DigitVal(s[2])

IsField(s, max) == Len(s) \in {1, 2} /\ AllDigits(s) /\ NumVal(s) <= max

IsValidTime(s) ==
    \E k \in 1..Len(s) :
        /\ s[k] = ":"
        /\ IsField(SubSeq(s, 1, k - 1), 23)
        /\ IsField(SubSeq(s, k + 1, Len(s)), 59)

(***************************************************************************)
(* _is_valid_date: datetime.strptime(value, "%Y-%m-%d") does not raise.    *)
(* %Y matches four digits, %m one or two digits for 1..12, %d one or two   *)
(* digits for 1..31, and the date must exist in the calendar.              *)
(***************************************************************************)
Num4(s) == 1000 * DigitVal(s[1]) + 100 * DigitVal(s[2]) + 10 * DigitVal(s[3]) + DigitVal(s[4])

IsLeap(y) == (y % 4 = 0 /\ y % 100 # 0) \/ y % 400 = 0

DaysInMonth(y, m) ==
    IF m = 2 THEN (IF IsLeap(y) THEN 29 ELSE 28)
    ELSE IF m \in {4, 6, 9, 11} THEN 30 ELSE 31

IsValidDate(s) ==
    \E i, j \in 1..Len(s) :
        /\ i < j
        /\ s[i] = "-"
        /\ s[j] = "-"
        /\ LET y == SubSeq(s, 1, i - 1)
               m == SubSeq(s, i + 1, j - 1)
               d == SubSeq(s, j + 1, Len(s))
           IN  /\ Len(y) = 4
               /\ AllDigits(y)
               /\ Num4(y) >= 1
               /\ IsField(m, 12)
               /\ NumVal(m) >= 1
               /\ IsField(d, 31)
               /\ NumVal(d) >= 1
               /\ NumVal(d) <= DaysInMonth(Num4(y), NumVal(m))

(***************************************************************************)
(* json.dumps / json.loads: a JSON value carries its JSON type             *)
(***************************************************************************)
JNull == [t |-> "null", v |-> <<>>]

JNum(n) == [t |-> "number", v |-> <<n>>]

JStr(s) == [t |-> "string", v |-> s]

JBool(b) == [t |-> IF b THEN "true" ELSE "false", v |-> <<>>]

DumpOptStr(x) == IF x = None THEN JNull ELSE JStr(x)

LoadOptStr(j) == IF j.t = "null" THEN None ELSE j.v

DumpOptInt(x) == IF x = NoneInt THEN JNull ELSE JNum(x)

LoadOptInt(j) == IF j.t = "null" THEN NoneInt ELSE j.v[1]

LoadBool(j) == j.t = "true"

\* a file that does not exist
NoFile == [exists |-> FALSE, next_id |-> JNull, items |-> <<>>]

(***************************************************************************)
(* ScheduleStore                                                           *)
(***************************************************************************)
ScheduleItem(id, guild_id, channel_id, time, message, last_run_date) ==
    [id |-> id, guild_id |-> guild_id, channel_id |-> channel_id,
     time |-> time, message |-> message, last_run_date |-> last_run_date]

ScheduleItemToJson(it) ==
    [id |-> JNum(it.id), guild_id |-> JNum(it.guild_id), channel_id |-> JNum(it.channel_id),
     time |-> JStr(it.time), message |-> JStr(it.message),
     last_run_date |-> DumpOptStr(it.last_run_date)]

ScheduleItemFromJson(j) ==
    ScheduleItem(j.id.v[1], j.guild_id.v[1], j.channel_id.v[1], j.time.v, j.message.v,
                 LoadOptStr(j.last_run_date))

\* ScheduleStore.save: the document written to schedules.json
ScheduleStore_save(items, nextId) ==
    [exists |-> TRUE, next_id |-> JNum(nextId),
     items |-> [i \in 1..Len(items) |-> ScheduleItemToJson(items[i])]]

\* as ScheduleStore_load, but the next id is recomputed from the items read
ScheduleStore_load_recount(disk) ==
    IF ~disk.exists
    THEN <<<<>>, FIRST_ID>>
    ELSE <<[i \in 1..Len(disk.items) |-> ScheduleItemFromJson(disk.items[i])], Len(disk.items) + 1>>

\* ScheduleStore.load: <<_items, _next_id>> read from the file
ScheduleStore_load(disk) ==
    IF ~disk.exists
    THEN <<<<>>, FIRST_ID>>
    ELSE <<[i \in 1..Len(disk.items) |-> ScheduleItemFromJson(disk.items[i])], disk.next_id.v[1]>>

\* the list comprehension of remove
ScheduleStore_without(items, schedule_id) == SelectSeq(items, LAMBDA it : it.id # schedule_id)

\* ScheduleStore.list_for_guild
ScheduleStore_list_for_guild(items, guild_id) == SelectSeq(items, LAMBDA it : it.guild_id = guild_id)

\* as ScheduleStore_with_last_run, with the date given to every item of the store
ScheduleStore_with_last_run_all(items, schedule_id, run_date) ==
    [i \in 1..Len(items) |-> [items[i] EXCEPT !.last_run_date = IsoFormat(run_date)]]

\* as ScheduleStore_with_last_run, but no item is changed
ScheduleStore_with_last_run_lost(items, schedule_id, run_date) == items

\* the loop of update_last_run: the first item with the id gets the date
ScheduleStore_with_last_run(items, schedule_id, run_date) ==
    LET hits == {i \in 1..Len(items) : items[i].id = schedule_id}
    IN  IF hits = {}
        THEN items
        ELSE LET first == CHOOSE i \in hits : \A j \in hits : i <= j
             IN  [items EXCEPT ![first].last_run_date = IsoFormat(run_date)]

(***************************************************************************)
(* TaskStore                                                               *)
(***************************************************************************)
TaskItem(id, guild_id, task, urgency, deadline, created_at) ==
    [id |-> id, guild_id |-> guild_id, task |-> task, urgency |-> urgency,
     deadline |-> deadline, created_at |-> created_at]

TaskItemToJson(it) ==
    [id |-> JNum(it.id), guild_id |-> JNum(it.guild_id), task |-> JStr(it.task),
     urgency |-> DumpOptStr(it.urgency), deadline |-> DumpOptStr(it.deadline),
     created_at |-> JStr(it.created_at)]

TaskItemFromJson(j) ==
    TaskItem(j.id.v[1], j.guild_id.v[1], j.task.v, LoadOptStr(j.urgency),
             LoadOptStr(j.deadline), j.created_at.v)

\* TaskStore.save
TaskStore_save(items, nextId) ==
    [exists |-> TRUE, next_id |-> JNum(nextId),
     items |-> [i \in 1..Len(items) |-> TaskItemToJson(items[i])]]

\* TaskStore.load
TaskStore_load(disk) ==
    IF ~disk.exists
    THEN <<<<>>, FIRST_ID>>
    ELSE <<[i \in 1..Len(disk.items) |-> TaskItemFromJson(disk.items[i])], disk.next_id.v[1]>>

TaskStore_without(items, task_id) == SelectSeq(items, LAMBDA it : it.id # task_id)

TaskStore_list_for_guild(items, guild_id) == SelectSeq(items, LAMBDA it : it.guild_id = guild_id)

(***************************************************************************)
(* ConfigStore: _data["hourly_task_list"], a dict keyed by str(guild_id)   *)
(***************************************************************************)
RECURSIVE IntStr(_)
\* str(n) of a non-negative int
IntStr(n) == IF n < 10 THEN <<DigitChars[n + 1]>> ELSE IntStr(n \div 10) \o <<DigitChars[(n % 10) + 1]>>

NoConfigFile == [exists |-> FALSE, hourly_task_list |-> <<>>]

\* ConfigStore.save
ConfigStore_save(data) ==
    [exists |-> TRUE,
     hourly_task_list |-> [k \in DOMAIN data |->
         [enabled |-> JBool(data[k].enabled), channel_id |-> DumpOptInt(data[k].channel_id)]]]

\* ConfigStore.load of a file that exists
ConfigStore_load(disk) ==
    [k \in DOMAIN disk.hourly_task_list |->
        [enabled |-> LoadBool(disk.hourly_task_list[k].enabled),
         channel_id |-> LoadOptInt(disk.hourly_task_list[k].channel_id)]]

\* the default record of get_hourly_task_list
DefaultSettings == [enabled |-> FALSE, channel_id |-> NoneInt]

\* ConfigStore.get_hourly_task_list
ConfigStore_get(data, guild_id) ==
    IF IntStr(guild_id) \in DOMAIN data THEN data[IntStr(guild_id)] ELSE DefaultSettings

\* the dict after the assignment of set_hourly_task_list
ConfigStore_with(data, guild_id, enabled, channel_id) ==
    [k \in DOMAIN data \cup {IntStr(guild_id)} |->
        IF k = IntStr(guild_id) THEN [enabled |-> enabled, channel_id |-> channel_id] ELSE data[k]]

(***************************************************************************)
(* Store operations as steps.  ret records the call: the id given to       *)
(* remove or the guild given to add / get, what the call returned, and     *)
(* whether it called save().                                               *)
(***************************************************************************)
NoItem == <<>>

\* what a step of the hourly loop did; NoEvent when the step was not one of its steps
NoEvent == [kind |-> "none", guild |-> 0, dest |-> "none"]

Event(kind, guild, dest) == [kind |-> kind, guild |-> guild, dest |-> dest]

Ret(op, store, arg, ok, wrote, item) == [op |-> op, store |-> store, arg |-> arg, ok |-> ok, wrote |-> wrote, item |-> item]

\* ScheduleStore.add
ScheduleStore_add(guild_id, channel_id, time, message) ==
    LET item == ScheduleItem(sNextId, guild_id, channel_id, time, message, None)
    IN  /\ sNextId' = sNextId + 1
        /\ sItems' = Append(sItems, item)
        /\ sDisk' = ScheduleStore_save(sItems', sNextId')
        /\ sIssued' = Append(sIssued, item.id)
        /\ ret' = Ret("add", "schedule", guild_id, TRUE, TRUE, item)

\* as ScheduleStore_remove, but save() is called whether or not an item was removed
ScheduleStore_remove_always_saves(schedule_id) ==
    LET after == SelectSeq(sItems, LAMBDA it : it.id # schedule_id)
    IN  /\ sItems' = after
        /\ sNextId' = sNextId
        /\ sIssued' = sIssued
        /\ sDisk' = [exists |-> TRUE, next_id |-> JNum(sNextId),
                     items |-> [i \in 1..Len(after) |-> ScheduleItemToJson(after[i])]]
        /\ ret' = [op |-> "remove", store |-> "schedule", arg |-> schedule_id,
                   ok |-> Len(after) # Len(sItems), wrote |-> TRUE, item |-> <<>>]

\* ScheduleStore.remove
ScheduleStore_remove(schedule_id) ==
    LET after == ScheduleStore_without(sItems, schedule_id)
    IN  /\ sItems' = after
        /\ sNextId' = sNextId
        /\ sIssued' = sIssued
        /\ IF Len(after) = Len(sItems)
           THEN /\ sDisk' = sDisk
                /\ ret' = Ret("remove", "schedule", schedule_id, FALSE, FALSE, NoItem)
           ELSE /\ sDisk' = ScheduleStore_save(after, sNextId)
                /\ ret' = Ret("remove", "schedule", schedule_id, TRUE, TRUE, NoItem)

\* as ScheduleStore_update_last_run, but without the final save()
ScheduleStore_update_last_run_unsaved(schedule_id, run_date) ==
    /\ sItems' = ScheduleStore_with_last_run(sItems, schedule_id, run_date)
    /\ UNCHANGED <<sNextId, sIssued, sDisk>>
    /\ ret' = [op |-> "update_last_run", store |-> "schedule", arg |-> 0,
               ok |-> TRUE, wrote |-> FALSE, item |-> <<>>]

\* ScheduleStore.update_last_run
ScheduleStore_update_last_run(schedule_id, run_date) ==
    /\ sItems' = ScheduleStore_with_last_run(sItems, schedule_id, run_date)
    /\ sNextId' = sNextId
    /\ sIssued' = sIssued
    /\ sDisk' = ScheduleStore_save(sItems', sNextId)
    /\ ret' = Ret("update_last_run", "schedule", 0, TRUE, TRUE, NoItem)

\* TaskStore.add
TaskStore_add(guild_id, task, urgency, deadline) ==
    LET item == TaskItem(tNextId, guild_id, task, urgency, deadline, IsoDateTime(now))
    IN  /\ tNextId' = tNextId + 1
        /\ tItems' = Append(tItems, item)
        /\ tDisk' = TaskStore_save(tItems', tNextId')
        /\ tIssued' = Append(tIssued, item.id)
        /\ ret' = Ret("add", "task", guild_id, TRUE, TRUE, item)

\* TaskStore.remove
TaskStore_remove(task_id) ==
    LET after == TaskStore_without(tItems, task_id)
    IN  /\ tItems' = after
        /\ tNextId' = tNextId
        /\ tIssued' = tIssued
        /\ IF Len(after) = Len(tItems)
           THEN /\ tDisk' = tDisk
                /\ ret' = Ret("remove", "task", task_id, FALSE, FALSE, NoItem)
           ELSE /\ tDisk' = TaskStore_save(after, tNextId)
                /\ ret' = Ret("remove", "task", task_id, TRUE, TRUE, NoItem)

\* ConfigStore.set_hourly_task_list
ConfigStore_set_hourly_task_list(guild_id, enabled, channel_id) ==
    /\ cData' = ConfigStore_with(cData, guild_id, enabled, channel_id)
    /\ cDisk' = ConfigStore_save(cData')
    /\ ret' = Ret("set", "config", guild_id, TRUE, TRUE, [enabled |-> enabled, channel_id |-> channel_id])

\* as ConfigStore_get_hourly_task_list, with dict.setdefault in place of dict.get
ConfigStore_get_hourly_task_list_setdefault(guild_id) ==
    /\ cData' = IF IntStr(guild_id) \in DOMAIN cData THEN cData
                ELSE ConfigStore_with(cData, guild_id, FALSE, NoneInt)
    /\ cDisk' = cDisk
    /\ ret' = Ret("get", "config", guild_id, TRUE, FALSE, ConfigStore_get(cData, guild_id))

\* ConfigStore.get_hourly_task_list
ConfigStore_get_hourly_task_list(guild_id) ==
    /\ UNCHANGED configVars
    /\ ret' = Ret("get", "config", guild_id, TRUE, FALSE, ConfigStore_get(cData, guild_id))

\* ScheduleStore.__init__ / TaskStore.__init__ / ConfigStore.__init__: load() of each file
StoresLoad ==
    /\ sItems' = ScheduleStore_load(sDisk)[1]
    /\ sNextId' = ScheduleStore_load(sDisk)[2]
    /\ tItems' = TaskStore_load(tDisk)[1]
    /\ tNextId' = TaskStore_load(tDisk)[2]
    /\ cData' = IF cDisk.exists THEN ConfigStore_load(cDisk) ELSE <<>>
    /\ cDisk' = IF cDisk.exists THEN cDisk ELSE ConfigStore_save(<<>>)
    /\ UNCHANGED <<sDisk, tDisk, issuedVars>>
    /\ ret' = Ret("load", "all", 0, TRUE, ~cDisk.exists, NoItem)

(***************************************************************************)
(* Inputs                                                                  *)
(***************************************************************************)
Guilds == {1, 2}

Ids == 1..MaxId

\* the last value of the clock in Spec, and the dates up to it
SchedLast == ClockSteps * CHECK_INTERVAL_SECONDS

Dates == 1..DateOf(SchedLast)

\* the last value of the clock in SpecHourly, and the clock hours up to it
HourlyLast == MaxHours * SecondsPerHour

Hours == 0..MaxHours

\* "00:00", a time the clock formats; "0:00", which strptime also accepts
T0000 == <<"0", "0", ":", "0", "0">>
T000 == <<"0", ":", "0", "0">>
\* "25:00", which strptime rejects
T2500 == <<"2", "5", ":", "0", "0">>

Msg == <<"h", "i">>

D0102 == <<"2", "0", "2", "4", "-", "0", "1", "-", "0", "2">>
\* "2024-02-30", which strptime rejects
D0230 == <<"2", "0", "2", "4", "-", "0", "2", "-", "3", "0">>

High == <<"h", "i", "g", "h">>

(***************************************************************************)
(* The state after the module-level construction of the three stores and   *)
(* the client: no file exists yet, so the item stores load empty and       *)
(* ConfigStore.load writes its first snapshot.                             *)
(***************************************************************************)
Constructed(tasksFile, configFile) ==
    /\ sItems = ScheduleStore_load(NoFile)[1]
    /\ sNextId = ScheduleStore_load(NoFile)[2]
    /\ sDisk = NoFile
    /\ tItems = TaskStore_load(tasksFile)[1]
    /\ tNextId = TaskStore_load(tasksFile)[2]
    /\ tDisk = tasksFile
    /\ cData = IF configFile.exists THEN ConfigStore_load(configFile) ELSE <<>>
    /\ cDisk = IF configFile.exists THEN configFile ELSE ConfigStore_save(<<>>)
    /\ sIssued = <<>>
    /\ tIssued = <<>>
    /\ ret = Ret("load", "all", 0, TRUE, TRUE, NoItem)
    /\ reply = "none"
    /\ now = 0
    /\ client = "starting"
    /\ sPc = "waiting"
    /\ sNow = 0
    /\ sNowTime = StrfTime(0)
    /\ sToday = DateOf(0)
    /\ sSnap = <<>>
    /\ sIdx = 0
    /\ sWake = 0
    /\ sendCount = [i \in Ids |-> [d \in Dates |-> 0]]
    /\ attempts = [i \in Ids |-> 0]
    /\ failed = {}
    /\ hPc = "waiting"
    /\ hNow = 0
    /\ hWake = 0
    /\ hIdx = 0
    /\ hSince = -1
    /\ observed = [h \in Hours |-> 0]
    /\ digests = [g \in Guilds |-> [h \in Hours |-> 0]]
    /\ hEvent = NoEvent

Init == Constructed(NoFile, NoConfigFile)

\* tasks.json as an earlier run left it: one checklist item for each guild
EarlierTasks ==
    TaskStore_save(<<TaskItem(1, 1, Msg, None, None, IsoDateTime(0)),
                     TaskItem(2, 2, Msg, High, D0102, IsoDateTime(0))>>, 3)

\* config.json as an earlier run left it: /task auto was run in guild 2
EarlierConfig == ConfigStore_save(ConfigStore_with(<<>>, 2, TRUE, 1))

InitHourly == Constructed(EarlierTasks, EarlierConfig)

loopVars == <<now, client, schedLoopVars, schedHistVars, hourlyVars>>

(***************************************************************************)
(* SpecStore: the stores' public operations called in any order            *)
(***************************************************************************)
StoreScheduleAdd ==
    \E gt \in {<<1, T0000>>, <<2, T000>>} :
        /\ sNextId <= StoreMaxId
        /\ ScheduleStore_add(gt[1], 1, gt[2], Msg)
        /\ hEvent' = NoEvent
        /\ UNCHANGED <<taskVars, tIssued, configVars, reply, loopVars>>

StoreScheduleRemove ==
    \E id \in 1..sNextId :
        /\ ScheduleStore_remove(id)
        /\ hEvent' = NoEvent
        /\ UNCHANGED <<taskVars, tIssued, configVars, reply, loopVars>>

StoreScheduleUpdateLastRun ==
    \E id \in 1..sNextId, d \in {2} :
        /\ ScheduleStore_update_last_run(id, d)
        /\ hEvent' = NoEvent
        /\ UNCHANGED <<taskVars, tIssued, configVars, reply, loopVars>>

StoreTaskAdd ==
    \E gud \in {<<1, None, None>>, <<2, High, D0102>>} :
        /\ tNextId <= StoreMaxId
        /\ TaskStore_add(gud[1], Msg, gud[2], gud[3])
        /\ hEvent' = NoEvent
        /\ UNCHANGED <<storeVars, sIssued, configVars, reply, loopVars>>

StoreTaskRemove ==
    \E id \in 1..tNextId :
        /\ TaskStore_remove(id)
        /\ hEvent' = NoEvent
        /\ UNCHANGED <<storeVars, sIssued, configVars, reply, loopVars>>

StoreConfigSet ==
    \E gec \in {<<1, TRUE, 1>>, <<2, FALSE, NoneInt>>} :
        /\ ConfigStore_set_hourly_task_list(gec[1], gec[2], gec[3])
        /\ hEvent' = NoEvent
        /\ UNCHANGED <<storeVars, taskVars, issuedVars, reply, loopVars>>

StoreConfigGet ==
    \E g \in Guilds :
        /\ ConfigStore_get_hourly_task_list(g)
        /\ hEvent' = NoEvent
        /\ UNCHANGED <<storeVars, taskVars, issuedVars, reply, loopVars>>

\* the process is started again: the three stores are constructed from their files
StoreReload ==
    /\ StoresLoad
    /\ hEvent' = NoEvent
    /\ UNCHANGED <<reply, loopVars>>

NextStore ==
    \/ StoreScheduleAdd
    \/ StoreScheduleRemove
    \/ StoreScheduleUpdateLastRun
    \/ StoreTaskAdd
    \/ StoreTaskRemove
    \/ StoreConfigSet
    \/ StoreConfigGet
    \/ StoreReload

SpecStore == Init /\ [][NextStore]_vars

\* the ConfigStore's operations, between operations of another store and restarts
NextConfig ==
    \/ StoreConfigSet
    \/ StoreConfigGet
    \/ StoreScheduleAdd
    \/ StoreScheduleRemove
    \/ StoreReload

SpecConfig == Init /\ [][NextConfig]_vars

(***************************************************************************)
(* The messaging client and the clock                                      *)
(***************************************************************************)
\* no store call and no command reply in this step
NoRet == [op |-> "none", store |-> "none", arg |-> 0, ok |-> FALSE, wrote |-> FALSE, item |-> <<>>]

Silent == ret' = NoRet /\ reply' = "none"

Quiet == Silent /\ hEvent' = NoEvent

\* the schedule loop is inside synchronous code: asyncio runs no other task, and
\* no time is counted, until it reaches its next await
InSync == sPc \in {"resolve", "returned"} \/ hPc = "guild"

\* the client reports ready
ClientReady ==
    /\ ~InSync
    /\ client = "starting"
    /\ client' = "ready"
    /\ Quiet
    /\ UNCHANGED <<storeVars, taskVars, configVars, issuedVars, now, schedLoopVars, schedHistVars, hourlyVars>>

\* the client is closed: is_closed() is true from now on
ClientClose ==
    /\ ~InSync
    /\ client \in {"starting", "ready"}
    /\ client' = "closed"
    /\ Quiet
    /\ UNCHANGED <<storeVars, taskVars, configVars, issuedVars, now, schedLoopVars, schedHistVars, hourlyVars>>

\* d seconds pass, up to the last second the clock runs to; a sleeping hourly
\* loop is woken at most MaxLate seconds after its sleep ends, and the network
\* calls of one hourly tick take at most MaxLate seconds; the clock is not followed
\* once the hourly loop has ended; a starting client is ready within MaxStart seconds
Elapse(d, last) ==
    /\ ~InSync
    /\ now + d <= last
    /\ hPc = "sleeping" => now + d <= hWake + MaxLate
    /\ hPc \in {"fetching", "sending"} => now + d <= hNow + MaxLate
    /\ hPc # "done"
    /\ client = "starting" => now + d <= MaxStart
    /\ now' = now + d
    /\ Quiet
    /\ UNCHANGED <<storeVars, taskVars, configVars, issuedVars, client, schedLoopVars, schedHistVars, hourlyVars>>

(***************************************************************************)
(* schedule_add / schedule_remove                                          *)
(***************************************************************************)
NoGuild == 0

\* schedule_add: guild is interaction.guild (NoGuild outside a server), channel the
\* optional TextChannel argument (NoneInt when omitted), invoking the channel the
\* command was typed in, a record [id, text]
schedule_add(guild, time, message, channel, invoking) ==
    IF guild = NoGuild
    THEN /\ reply' = "Schedules must be created in a server."
         /\ ret' = NoRet
         /\ UNCHANGED <<storeVars, sIssued>>
    ELSE IF ~IsValidTime(time)
    THEN /\ reply' = "Invalid time. Use HH:MM in 24h format."
         /\ ret' = NoRet
         /\ UNCHANGED <<storeVars, sIssued>>
    ELSE IF channel = NoneInt /\ ~invoking.text
    THEN /\ reply' = "Could not resolve a text channel."
         /\ ret' = NoRet
         /\ UNCHANGED <<storeVars, sIssued>>
    ELSE /\ ScheduleStore_add(guild, IF channel # NoneInt THEN channel ELSE invoking.id, time, message)
         /\ reply' = "Scheduled"

\* schedule_remove
schedule_remove(schedule_id) ==
    /\ ScheduleStore_remove(schedule_id)
    /\ reply' = IF ret'.ok THEN "Removed schedule" ELSE "Schedule not found."

\* a member runs /schedule add
CmdScheduleAdd(guild, time, channel, invoking) ==
    /\ ~InSync
    /\ client = "ready"
    /\ sNextId <= MaxId
    /\ schedule_add(guild, time, Msg, channel, invoking)
    /\ hEvent' = NoEvent
    /\ UNCHANGED <<taskVars, tIssued, configVars, loopVars>>

\* a member runs /schedule remove
CmdScheduleRemove(id) ==
    /\ ~InSync
    /\ client = "ready"
    /\ schedule_remove(id)
    /\ hEvent' = NoEvent
    /\ UNCHANGED <<taskVars, tIssued, configVars, loopVars>>

\* the ids of the items in the store, and one id that is not there
StoredIds == {sItems[i].id : i \in 1..Len(sItems)}

TextChannel1 == [id |-> 1, text |-> TRUE]

\* an invoking channel that is not a discord.TextChannel (a thread, a DM)
OtherChannel2 == [id |-> 2, text |-> FALSE]

(***************************************************************************)
(* _schedule_loop and _check_schedules.  sPc is where the task is          *)
(* suspended: "waiting" in wait_until_ready, "fetching" in fetch_channel,  *)
(* "sending" in channel.send, "sleeping" in asyncio.sleep; "resolve" is    *)
(* the loop standing at a due item before get_channel, "returned" the end  *)
(* of _check_schedules before asyncio.sleep is called, "done" the task     *)
(* ended by the closed client, "dead" the task ended by an exception.      *)
(***************************************************************************)
\* item.last_run_date as the loop reads it: the item object is shared with the
\* store while the store holds it, and keeps its value once removed
LiveLastRun(items, it) ==
    LET hits == {i \in 1..Len(items) : items[i].id = it.id}
    IN  IF hits = {} THEN it.last_run_date ELSE items[CHOOSE i \in hits : TRUE].last_run_date

\* as IsDue, without the comparison of last_run_date
IsDue_ignores_last_run(time, last_run_date, now_time, today) == time = now_time

\* as IsDue, with the time compared by hour and minute values instead of as strings
IsDue_by_value(time, last_run_date, now_time, today) ==
    /\ NumVal(SubSeq(time, 1, Len(time) - 3)) = NumVal(SubSeq(now_time, 1, 2))
    /\ NumVal(SubSeq(time, Len(time) - 1, Len(time))) = NumVal(SubSeq(now_time, 4, 5))
    /\ last_run_date # IsoFormat(today)

\* the two tests that let an item through to delivery
IsDue(time, last_run_date, now_time, today) ==
    /\ ~(time # now_time)
    /\ ~(last_run_date = IsoFormat(today))

\* the index of the first item from position from on that passes the tests, 0 if none
NextDue(items, snap, from, now_time, today) ==
    LET due == {k \in from..Len(snap) : IsDue(snap[k].time, LiveLastRun(items, snap[k]), now_time, today)}
    IN  IF due = {} THEN 0 ELSE CHOOSE k \in due : \A j \in due : k <= j

\* the for loop moves on from position from: to the next due item, or out of the
\* loop and of _check_schedules
Goto(items, snap, from, now_time, today) ==
    LET k == NextDue(items, snap, from, now_time, today)
    IN  IF k = 0
        THEN /\ sPc' = "returned"
             /\ sIdx' = 0
             /\ sWake' = sWake
        ELSE /\ sPc' = "resolve"
             /\ sIdx' = k
             /\ sWake' = sWake

\* while not self.is_closed(): the task ends, or _check_schedules starts a tick
SchedIterate ==
    IF client = "closed"
    THEN /\ sPc' = "done"
         /\ UNCHANGED <<sNow, sNowTime, sToday, sSnap, sIdx, sWake, attempts, failed>>
    ELSE /\ sNow' = now
         /\ sNowTime' = StrfTime(now)
         /\ sToday' = DateOf(now)
         /\ sSnap' = sItems
         /\ attempts' = [i \in Ids |-> 0]
         /\ failed' = {}
         /\ Goto(sItems, sItems, 1, StrfTime(now), DateOf(now))

\* as SchedReady, with the loop entered without awaiting wait_until_ready
SchedReady_unawaited ==
    /\ sPc = "waiting"
    /\ SchedIterate
    /\ Quiet
    /\ UNCHANGED <<storeVars, taskVars, configVars, issuedVars, now, client, sendCount, hourlyVars>>

\* wait_until_ready returns
SchedReady ==
    /\ sPc = "waiting"
    /\ client = "ready"
    /\ SchedIterate
    /\ Quiet
    /\ UNCHANGED <<storeVars, taskVars, configVars, issuedVars, now, client, sendCount, hourlyVars>>

\* _check_schedules has returned, its locals are gone: await asyncio.sleep(CHECK_INTERVAL_SECONDS)
SchedSleep ==
    /\ sPc = "returned"
    /\ sPc' = "sleeping"
    /\ sWake' = now + CHECK_INTERVAL_SECONDS
    /\ sNow' = 0
    /\ sNowTime' = StrfTime(0)
    /\ sToday' = DateOf(0)
    /\ sSnap' = <<>>
    /\ sIdx' = 0
    /\ attempts' = [i \in Ids |-> 0]
    /\ Quiet
    /\ UNCHANGED <<storeVars, taskVars, configVars, issuedVars, now, client, sendCount, failed, hourlyVars>>

\* as SchedWake, with the next tick started without waiting for the sleep to end
SchedWake_at_once ==
    /\ sPc = "sleeping"
    /\ SchedIterate
    /\ Quiet
    /\ UNCHANGED <<storeVars, taskVars, configVars, issuedVars, now, client, sendCount, hourlyVars>>

\* asyncio.sleep(CHECK_INTERVAL_SECONDS) returns
SchedWake ==
    /\ sPc = "sleeping"
    /\ now >= sWake
    /\ SchedIterate
    /\ Quiet
    /\ UNCHANGED <<storeVars, taskVars, configVars, issuedVars, now, client, sendCount, hourlyVars>>

\* the exceptions the except clause of _check_schedules handles
Catches_nothing(exc) == FALSE

Catches(exc) == exc = "DiscordException"

\* the item's delivery ended without a send: except ... continue, or no text channel
SkipItem(caught) ==
    /\ failed' = failed \cup {sSnap[sIdx].id}
    /\ IF caught
       THEN Goto(sItems, sSnap, sIdx + 1, sNowTime, sToday)
       ELSE sPc' = "dead" /\ UNCHANGED <<sIdx, sWake>>
    /\ UNCHANGED <<storeVars, sIssued, sendCount>>

\* get_channel(item.channel_id): a cached text channel, a cached channel of
\* another kind, or None and the call of fetch_channel
SchedGetChannel(r) ==
    /\ sPc = "resolve"
    /\ attempts' = [attempts EXCEPT ![sSnap[sIdx].id] = @ + 1]
    /\ CASE r = "text" -> /\ sPc' = "sending"
                          /\ UNCHANGED <<sIdx, sWake, failed, storeVars, sIssued, sendCount>>
         [] r = "other" -> SkipItem(TRUE)
         [] r = "miss" -> /\ sPc' = "fetching"
                          /\ UNCHANGED <<sIdx, sWake, failed, storeVars, sIssued, sendCount>>
    /\ Quiet
    /\ UNCHANGED <<taskVars, tIssued, configVars, now, client, sNow, sNowTime, sToday, sSnap, hourlyVars>>

\* fetch_channel returns a text channel, a channel of another kind, or raises
SchedFetchDone(r) ==
    /\ sPc = "fetching"
    /\ CASE r = "text" -> /\ sPc' = "sending"
                          /\ UNCHANGED <<sIdx, sWake, failed, storeVars, sIssued, sendCount>>
         [] r = "other" -> SkipItem(TRUE)
         [] r = "raise" -> SkipItem(Catches("DiscordException"))
    /\ Quiet
    /\ UNCHANGED <<taskVars, tIssued, configVars, now, client, sNow, sNowTime, sToday, sSnap, attempts, hourlyVars>>

\* channel.send returned (r = "ok") or raised; mark says whether update_last_run runs
SendResult(r, mark) ==
    /\ sPc = "sending"
    /\ sendCount' = IF r = "ok" THEN [sendCount EXCEPT ![sSnap[sIdx].id][sToday] = @ + 1] ELSE sendCount
    /\ IF mark
       THEN ScheduleStore_update_last_run(sSnap[sIdx].id, sToday)
       ELSE ret' = NoRet /\ UNCHANGED <<storeVars, sIssued>>
    /\ reply' = "none"
    /\ failed' = IF r = "ok" THEN failed ELSE failed \cup {sSnap[sIdx].id}
    /\ IF r = "ok" \/ Catches("DiscordException")
       THEN Goto(sItems', sSnap, sIdx + 1, sNowTime, sToday)
       ELSE sPc' = "dead" /\ UNCHANGED <<sIdx, sWake>>
    /\ hEvent' = NoEvent
    /\ UNCHANGED <<taskVars, tIssued, configVars, now, client, sNow, sNowTime, sToday, sSnap, attempts, hourlyVars>>

\* as SchedSendDone, with update_last_run called whether or not the send raised
SchedSendDone_always_marks(r) == SendResult(r, TRUE)

\* await channel.send(item.message); self.store.update_last_run(item.id, today)
SchedSendDone(r) == SendResult(r, r = "ok")

\* the process ends after the client closed (a tick under way ends first) and is
\* started again: the stores are constructed from their files, the loops wait
Restart ==
    /\ client = "closed"
    /\ sPc \in {"waiting", "sleeping", "done"}
    /\ StoresLoad
    /\ client' = "starting"
    /\ sPc' = "waiting"
    /\ sSnap' = <<>>
    /\ sIdx' = 0
    /\ attempts' = [i \in Ids |-> 0]
    /\ failed' = {}
    /\ reply' = "none"
    /\ hEvent' = NoEvent
    /\ UNCHANGED <<now, sNow, sNowTime, sToday, sWake, sendCount, hourlyVars>>

Next ==
    \/ ClientReady
    \/ ClientClose
    \/ Elapse(CHECK_INTERVAL_SECONDS, SchedLast)
    \/ \E time \in {T0000, T000, T2500} : CmdScheduleAdd(1, time, NoneInt, TextChannel1)
    \/ \E id \in StoredIds \cup {sNextId} : CmdScheduleRemove(id)
    \/ SchedReady
    \/ SchedSleep
    \/ SchedWake
    \/ \E r \in {"text", "other", "miss"} : SchedGetChannel(r)
    \/ \E r \in {"text", "other", "raise"} : SchedFetchDone(r)
    \/ \E r \in {"ok", "raise"} : SchedSendDone(r)
    \/ Restart

Spec == Init /\ [][Next]_vars

(***************************************************************************)
(* task_auto                                                               *)
(***************************************************************************)
\* task_auto: channel is the optional TextChannel argument (NoneInt when omitted)
task_auto(guild, enabled, channel, invoking) ==
    IF guild = NoGuild
    THEN /\ reply' = "This can only be used in a server."
         /\ ret' = NoRet
         /\ UNCHANGED configVars
    ELSE IF enabled /\ channel = NoneInt /\ ~invoking.text
    THEN /\ reply' = "Could not resolve a text channel."
         /\ ret' = NoRet
         /\ UNCHANGED configVars
    ELSE /\ ConfigStore_set_hourly_task_list(guild, enabled,
                IF ~enabled THEN NoneInt ELSE IF channel # NoneInt THEN channel ELSE invoking.id)
         /\ reply' = IF enabled THEN "Hourly task list enabled." ELSE "Hourly task list disabled."

\* a member runs /task auto
CmdTaskAuto(guild, enabled, channel, invoking) ==
    /\ ~InSync
    /\ client = "ready"
    /\ task_auto(guild, enabled, channel, invoking)
    /\ hEvent' = NoEvent
    /\ UNCHANGED <<storeVars, taskVars, issuedVars, loopVars>>

(***************************************************************************)
(* task_add / task_remove                                                  *)
(***************************************************************************)
\* as task_add, without the test of the deadline
task_add_unchecked_deadline(guild, task, urgency, deadline) ==
    IF guild = NoGuild
    THEN /\ reply' = "Tasks must be created in a server."
         /\ ret' = NoRet
         /\ UNCHANGED <<taskVars, tIssued>>
    ELSE /\ TaskStore_add(guild, task, urgency, deadline)
         /\ reply' = "Added task"

\* task_add: deadline is None when omitted; "if deadline" is false for None and ""
task_add(guild, task, urgency, deadline) ==
    IF guild = NoGuild
    THEN /\ reply' = "Tasks must be created in a server."
         /\ ret' = NoRet
         /\ UNCHANGED <<taskVars, tIssued>>
    ELSE IF (deadline # None /\ deadline # <<>>) /\ ~IsValidDate(deadline)
    THEN /\ reply' = "Invalid deadline. Use YYYY-MM-DD."
         /\ ret' = NoRet
         /\ UNCHANGED <<taskVars, tIssued>>
    ELSE /\ TaskStore_add(guild, task, urgency, deadline)
         /\ reply' = "Added task"

\* task_remove
task_remove(task_id) ==
    /\ TaskStore_remove(task_id)
    /\ reply' = IF ret'.ok THEN "Removed task" ELSE "Task not found."

\* a member runs /task add
CmdTaskAdd(guild, urgency, deadline) ==
    /\ ~InSync
    /\ client = "ready"
    /\ tNextId <= MaxId
    /\ task_add(guild, Msg, urgency, deadline)
    /\ hEvent' = NoEvent
    /\ UNCHANGED <<storeVars, sIssued, configVars, loopVars>>

\* a member runs /task remove
CmdTaskRemove(id) ==
    /\ ~InSync
    /\ client = "ready"
    /\ task_remove(id)
    /\ hEvent' = NoEvent
    /\ UNCHANGED <<storeVars, sIssued, configVars, loopVars>>

(***************************************************************************)
(* build_task_embed: sorted(items, key=sort_key), one embed field per item *)
(***************************************************************************)
\* Python's a < b on str: the first differing character decides by its code point
\* ("-" is 45, the digits 48..57), a proper prefix is less
StrLess(a, b) ==
    LET Ord(c) == IF c = "-" THEN 45 ELSE 48 + DigitVal(c)
    IN  \E k \in 1..(Len(b)) :
            /\ k - 1 <= Len(a)
            /\ \A i \in 1..(k - 1) : a[i] = b[i]
            /\ (k > Len(a) \/ Ord(a[k]) < Ord(b[k]))

\* str.lower() on the letters of the urgency labels
Lower(str) ==
    LET LowerChar(c) ==
            CASE c = "H" -> "h" [] c = "I" -> "i" [] c = "G" -> "g" [] c = "L" -> "l"
              [] c = "O" -> "o" [] c = "W" -> "w" [] c = "M" -> "m" [] c = "E" -> "e"
              [] c = "D" -> "d" [] c = "U" -> "u" [] OTHER -> c
    IN  [i \in 1..Len(str) |-> LowerChar(str[i])]

\* "9999-12-31", the deadline sort_key gives an item without a deadline
FarDeadline == <<"9", "9", "9", "9", "-", "1", "2", "-", "3", "1">>

\* urgency_rank.get((item.urgency or "").lower(), 3)
UrgencyRank(urgency) ==
    LET label == IF urgency = None THEN <<>> ELSE Lower(urgency)
    IN  CASE label = <<"h", "i", "g", "h">> -> 0
          [] label = <<"m", "e", "d", "i", "u", "m">> -> 1
          [] label = <<"l", "o", "w">> -> 2
          [] OTHER -> 3

\* sort_key
sort_key(item) ==
    <<IF item.deadline # None /\ item.deadline # <<>> THEN item.deadline ELSE FarDeadline,
      UrgencyRank(item.urgency), item.id>>

\* Python's a < b on the tuples sort_key returns
KeyLess(a, b) ==
    \/ StrLess(a[1], b[1])
    \/ a[1] = b[1] /\ a[2] < b[2]
    \/ a[1] = b[1] /\ a[2] = b[2] /\ a[3] < b[3]

\* one item put into a sorted list, after the items whose key is not greater
\* (sorted is stable)
RECURSIVE InsertSorted(_, _)
InsertSorted(item, sorted) ==
    IF sorted = <<>> THEN <<item>>
    ELSE IF KeyLess(sort_key(item), sort_key(Head(sorted)))
    THEN <<item>> \o sorted
    ELSE <<Head(sorted)>> \o InsertSorted(item, Tail(sorted))

\* sorted(items, key=sort_key)
RECURSIVE SortedItems(_)
SortedItems(items) ==
    IF items = <<>> THEN <<>>
    ELSE InsertSorted(items[Len(items)], SortedItems(SubSeq(items, 1, Len(items) - 1)))

\* the prefix build_task_embed puts before the task text
UrgencyPrefix(urgency) ==
    IF urgency = None \/ urgency = <<>> THEN "none"
    ELSE CASE UrgencyRank(urgency) = 0 -> "red"
           [] UrgencyRank(urgency) = 1 -> "orange"
           [] UrgencyRank(urgency) = 2 -> "green"
           [] OTHER -> "white"

\* build_task_embed: the fields of the embed, in order
build_task_embed(items) ==
    LET items_sorted == SortedItems(items)
    IN  [i \in 1..Len(items_sorted) |->
            [name |-> items_sorted[i].id, prefix |-> UrgencyPrefix(items_sorted[i].urgency),
             task |-> items_sorted[i].task, deadline |-> items_sorted[i].deadline]]

(***************************************************************************)
(* task_list / schedule_list: ret.item holds what the reply shows          *)
(***************************************************************************)
\* task_list
task_list(guild) ==
    IF guild = NoGuild \/ TaskStore_list_for_guild(tItems, guild) = <<>>
    THEN /\ reply' = "No tasks found."
         /\ ret' = NoRet
    ELSE /\ reply' = "embed"
         /\ ret' = Ret("list", "task", guild, TRUE, FALSE,
                       build_task_embed(TaskStore_list_for_guild(tItems, guild)))

\* schedule_list
schedule_list(guild) ==
    IF guild = NoGuild \/ ScheduleStore_list_for_guild(sItems, guild) = <<>>
    THEN /\ reply' = "No schedules found."
         /\ ret' = NoRet
    ELSE /\ reply' = "lines"
         /\ ret' = Ret("list", "schedule", guild, TRUE, FALSE,
                       ScheduleStore_list_for_guild(sItems, guild))

\* a member runs /task list
CmdTaskList(guild) ==
    /\ ~InSync
    /\ client = "ready"
    /\ task_list(guild)
    /\ hEvent' = NoEvent
    /\ UNCHANGED <<storeVars, taskVars, configVars, issuedVars, loopVars>>

\* a member runs /schedule list
CmdScheduleList(guild) ==
    /\ ~InSync
    /\ client = "ready"
    /\ schedule_list(guild)
    /\ hEvent' = NoEvent
    /\ UNCHANGED <<storeVars, taskVars, configVars, issuedVars, loopVars>>

(***************************************************************************)
(* SpecGuild: the add, remove and list commands run in two guilds          *)
(***************************************************************************)
\* /schedule remove run in guild (interaction.guild, which schedule_remove never reads)
CmdScheduleRemoveIn(guild, id) == CmdScheduleRemove(id)

\* /task remove run in guild (interaction.guild, which task_remove never reads)
CmdTaskRemoveIn(guild, id) == CmdTaskRemove(id)

NextGuild ==
    \/ ClientReady
    \/ \E guild \in Guilds : CmdScheduleAdd(guild, T0000, NoneInt, TextChannel1)
    \/ \E guild \in Guilds : CmdTaskAdd(guild, None, None)
    \/ \E guild \in Guilds, id \in Ids : CmdScheduleRemoveIn(guild, id)
    \/ \E guild \in Guilds, id \in Ids : CmdTaskRemoveIn(guild, id)
    \/ \E guild \in Guilds : CmdScheduleList(guild)
    \/ \E guild \in Guilds : CmdTaskList(guild)

SpecGuild == Init /\ [][NextGuild]_vars

(***************************************************************************)
(* SpecEmbed: /task list over the checklists an earlier run can have left  *)
(***************************************************************************)
\* tasks.json as an earlier run left it: up to MaxTasks items of guild 1, each with a
\* deadline and an urgency /task add accepts ("2024-9-01" is a deadline without zero
\* padding, "LOW" a label in upper case)
TaskFiles ==
    LET D1001 == <<"2", "0", "2", "4", "-", "1", "0", "-", "0", "1">>
        D0901 == <<"2", "0", "2", "4", "-", "9", "-", "0", "1">>
        Medium == <<"m", "e", "d", "i", "u", "m">>
        LOW == <<"L", "O", "W">>
    IN  UNION {{TaskStore_save([i \in 1..n |-> TaskItem(i, 1, Msg, f[i][2], f[i][1], IsoDateTime(0))], n + 1) :
            f \in [1..n -> {None, D0102, D1001, D0901} \X {None, High, Medium, LOW}]} :
            n \in 0..MaxTasks}

NextEmbed ==
    \/ ClientReady
    \/ \E guild \in Guilds : CmdTaskList(guild)

InitEmbed == \E file \in TaskFiles : Constructed(file, NoConfigFile)

SpecEmbed == InitEmbed /\ [][NextEmbed]_vars

(***************************************************************************)
(* _hourly_loop and _check_hourly_task_list.  hPc is where the task is     *)
(* suspended: "waiting" in wait_until_ready, "fetching" in fetch_channel,  *)
(* "sending" in channel.send, "sleeping" in asyncio.sleep; "guild" is the  *)
(* for loop standing at guild hIdx, "done" the task ended by the closed    *)
(* client, "dead" the task ended by an exception.                          *)
(***************************************************************************)
\* self.guilds
GuildList == <<1, 2>>

\* guild.system_channel: guild 1 has one, guild 2 has none
SystemChannel(g) == IF g = 1 THEN "text" ELSE "none"

\* as InWindow, without the test of now.second
InWindow_minute_only(t) == MinuteOf(t) = 0

\* as InWindow, with a window as long as the sleep between two ticks
InWindow_wide(t) == MinuteOf(t) = 0 /\ SecondOf(t) <= WINDOW_LAST_SECOND + HOURLY_CHECK_SECONDS

\* the two tests at the head of _check_hourly_task_list
InWindow(t) ==
    /\ ~(MinuteOf(t) # 0)
    /\ ~(SecondOf(t) > WINDOW_LAST_SECOND)

\* _check_hourly_task_list returns: await asyncio.sleep(HOURLY_CHECK_SECONDS)
HourlyReturn ==
    /\ hPc' = "sleeping"
    /\ hWake' = now + HOURLY_CHECK_SECONDS
    /\ hIdx' = 0

\* continue: the next guild, or out of the for loop
HourlyNextGuild ==
    IF hIdx < Len(GuildList)
    THEN /\ hPc' = "guild"
         /\ hIdx' = hIdx + 1
         /\ hWake' = hWake
    ELSE HourlyReturn

\* the channel dest is there: the guild's checklist, and the send of its digest
HourlySend(g, dest) ==
    IF TaskStore_list_for_guild(tItems, g) = <<>>
    THEN /\ HourlyNextGuild
         /\ digests' = digests
         /\ hEvent' = Event("empty", g, dest)
    ELSE /\ hPc' = "sending"
         /\ digests' = [digests EXCEPT ![g][HourIndex(hNow)] = @ + 1]
         /\ hEvent' = Event("send", g, dest)
         /\ UNCHANGED <<hIdx, hWake>>

\* while not self.is_closed(): the task ends, or _check_hourly_task_list starts a tick
HourlyIterate ==
    IF client = "closed"
    THEN /\ hPc' = "done"
         /\ hEvent' = Event("stop", 0, "none")
         /\ UNCHANGED <<hNow, hWake, hIdx, observed>>
    ELSE /\ hNow' = now
         /\ IF ~InWindow(now)
            THEN /\ HourlyReturn
                 /\ observed' = observed
                 /\ hEvent' = Event("idle", 0, "none")
            ELSE /\ hPc' = "guild"
                 /\ hIdx' = 1
                 /\ hWake' = hWake
                 /\ observed' = [observed EXCEPT ![HourIndex(now)] = @ + 1]
                 /\ hEvent' = Event("tick", 0, "none")

\* wait_until_ready returns; hSince is the first clock hour that starts with the
\* loop polling
HourlyReady ==
    /\ ~InSync
    /\ hPc = "waiting"
    /\ client = "ready"
    /\ HourlyIterate
    /\ hSince' = (now + SecondsPerHour - 1) \div SecondsPerHour
    /\ Silent
    /\ UNCHANGED <<storeVars, taskVars, configVars, issuedVars, now, client, schedLoopVars, schedHistVars, digests>>

\* asyncio.sleep(HOURLY_CHECK_SECONDS) returns
HourlyWake ==
    /\ ~InSync
    /\ hPc = "sleeping"
    /\ now >= hWake
    /\ HourlyIterate
    /\ Silent
    /\ UNCHANGED <<storeVars, taskVars, configVars, issuedVars, now, client, schedLoopVars, schedHistVars, hSince, digests>>

\* one guild of the for loop up to its first await: r is what get_channel finds
\* for a configured channel id, a cached channel or None
HourlyGuild(r) ==
    /\ hPc = "guild"
    /\ LET g == GuildList[hIdx]
           settings == ConfigStore_get(cData, g)
       IN  IF ~settings.enabled
           THEN HourlyNextGuild /\ digests' = digests /\ hEvent' = Event("disabled", g, "none")
           ELSE IF settings.channel_id # NoneInt /\ settings.channel_id # 0
           THEN IF r = "miss"
                THEN /\ hPc' = "fetching"
                     /\ hEvent' = Event("miss", g, "configured")
                     /\ UNCHANGED <<hIdx, hWake, digests>>
                ELSE HourlySend(g, "configured")
           ELSE IF SystemChannel(g) = "none"
           THEN HourlyNextGuild /\ digests' = digests /\ hEvent' = Event("nochannel", g, "none")
           ELSE HourlySend(g, "system")
    /\ Silent
    /\ UNCHANGED <<storeVars, taskVars, configVars, issuedVars, now, client, schedLoopVars, schedHistVars, hNow, hSince, observed>>

\* as HourlyCatches, with only the except clause around fetch_channel
HourlyCatches_fetch_only(call, exc) == call = "fetch" /\ exc = "DiscordException"

\* the except clauses of _check_hourly_task_list, around fetch_channel and around send
HourlyCatches(call, exc) == exc = "DiscordException"

\* the call for guild hIdx raised: continue when caught, else the task ends
HourlyRaised(call) ==
    IF HourlyCatches(call, "DiscordException")
    THEN HourlyNextGuild
    ELSE hPc' = "dead" /\ UNCHANGED <<hIdx, hWake>>

\* fetch_channel returns the channel or raises discord.DiscordException
HourlyFetchDone(r) ==
    /\ ~InSync
    /\ hPc = "fetching"
    /\ IF r = "raise"
       THEN /\ HourlyRaised("fetch")
            /\ digests' = digests
            /\ hEvent' = Event("fetchfail", GuildList[hIdx], "configured")
       ELSE HourlySend(GuildList[hIdx], "configured")
    /\ Silent
    /\ UNCHANGED <<storeVars, taskVars, configVars, issuedVars, now, client, schedLoopVars, schedHistVars, hNow, hSince, observed>>

\* channel.send(embed=embed) returns or raises discord.DiscordException
HourlySendDone(r) ==
    /\ ~InSync
    /\ hPc = "sending"
    /\ IF r = "raise"
       THEN /\ HourlyRaised("send")
            /\ hEvent' = Event("sendfail", GuildList[hIdx], "none")
       ELSE /\ HourlyNextGuild
            /\ hEvent' = Event("sent", GuildList[hIdx], "none")
    /\ Silent
    /\ UNCHANGED <<storeVars, taskVars, configVars, issuedVars, now, client, schedLoopVars, schedHistVars, hNow, hSince, observed, digests>>

\* one second passes; the task waiting in wait_until_ready runs as soon as the
\* client is ready
HourlyElapse ==
    /\ hPc = "waiting" => client # "ready"
    /\ Elapse(1, HourlyLast)

NextHourly ==
    \/ ClientReady
    \/ ClientClose
    \/ HourlyElapse
    \/ CmdTaskAuto(1, TRUE, NoneInt, TextChannel1)
    \/ HourlyReady
    \/ HourlyWake
    \/ \E r \in {"text", "miss"} : HourlyGuild(r)
    \/ \E r \in {"text", "raise"} : HourlyFetchDone(r)
    \/ \E r \in {"ok", "raise"} : HourlySendDone(r)

SpecHourly == InitHourly /\ [][NextHourly]_vars

(***************************************************************************)
(* SpecLoops: both loops of setup_hook in one process, the clock in steps  *)
(* of one sleep                                                            *)
(***************************************************************************)
NextLoops ==
    \/ ClientReady
    \/ ClientClose
    \/ Elapse(CHECK_INTERVAL_SECONDS, SchedLast)
    \/ CmdScheduleAdd(1, T0000, NoneInt, TextChannel1)
    \/ SchedReady
    \/ SchedSleep
    \/ SchedWake
    \/ \E r \in {"text", "miss"} : SchedGetChannel(r)
    \/ \E r \in {"text", "raise"} : SchedFetchDone(r)
    \/ \E r \in {"ok", "raise"} : SchedSendDone(r)
    \/ HourlyReady
    \/ HourlyWake
    \/ \E r \in {"text", "miss"} : HourlyGuild(r)
    \/ \E r \in {"text", "raise"} : HourlyFetchDone(r)
    \/ \E r \in {"ok", "raise"} : HourlySendDone(r)

SpecLoops == InitHourly /\ [][NextLoops]_vars

(***************************************************************************)
(* SpecDigest: the hourly loop with the clock in steps of one sleep, while *)
(* members disable and enable the digest and empty a checklist.  The       *)
(* process starts from the files of an earlier run, or from a config.json  *)
(* the operator wrote with both guilds enabled and no channel id.          *)
(***************************************************************************)
NextDigest ==
    \/ ClientReady
    \/ Elapse(HOURLY_CHECK_SECONDS, HourlyLast)
    \/ CmdTaskAuto(2, FALSE, NoneInt, TextChannel1)
    \/ CmdTaskAuto(1, TRUE, NoneInt, TextChannel1)
    \/ CmdTaskRemove(1)
    \/ HourlyReady
    \/ HourlyWake
    \/ \E r \in {"text", "miss"} : HourlyGuild(r)
    \/ \E r \in {"text", "raise"} : HourlyFetchDone(r)
    \/ \E r \in {"ok", "raise"} : HourlySendDone(r)

InitDigest ==
    \E config \in {EarlierConfig,
                   ConfigStore_save(ConfigStore_with(ConfigStore_with(<<>>, 1, TRUE, NoneInt), 2, TRUE, NoneInt))} :
        Constructed(EarlierTasks, config)

SpecDigest == InitDigest /\ [][NextDigest]_vars

(***************************************************************************)
(* SpecCmd: the commands that validate their arguments, run in any order   *)
(* with valid and invalid arguments, in a guild and outside one            *)
(***************************************************************************)
\* guild, time, channel argument, invoking channel of /schedule add
ScheduleAddInputs ==
    {<<NoGuild, T0000, NoneInt, TextChannel1>>, <<1, T2500, NoneInt, TextChannel1>>,
     <<1, T0000, NoneInt, OtherChannel2>>, <<1, T0000, 1, OtherChannel2>>,
     <<2, T000, NoneInt, TextChannel1>>}

\* guild, urgency, deadline of /task add
TaskAddInputs ==
    {<<NoGuild, None, D0102>>, <<1, None, D0230>>, <<1, None, None>>, <<2, High, D0102>>}

\* guild, enabled, channel argument, invoking channel of /task auto
TaskAutoInputs ==
    {<<NoGuild, TRUE, NoneInt, TextChannel1>>, <<1, TRUE, NoneInt, OtherChannel2>>,
     <<1, TRUE, NoneInt, TextChannel1>>, <<1, FALSE, NoneInt, OtherChannel2>>,
     <<2, TRUE, 1, OtherChannel2>>}

NextCmd ==
    \/ ClientReady
    \/ \E in \in ScheduleAddInputs : CmdScheduleAdd(in[1], in[2], in[3], in[4])
    \/ \E in \in TaskAddInputs : CmdTaskAdd(in[1], in[2], in[3])
    \/ \E in \in TaskAutoInputs : CmdTaskAuto(in[1], in[2], in[3], in[4])

SpecCmd == Init /\ [][NextCmd]_vars

(***************************************************************************)
(* Properties of the stores (checked under SpecStore)                      *)
(***************************************************************************)
StrictlyIncreasing(seq) == \A i, j \in 1..Len(seq) : i < j => seq[i] < seq[j]

InSeq(x, seq) == \E i \in 1..Len(seq) : seq[i] = x

\* the sequence without its element at position pos
DropAt(seq, pos) == [i \in 1..(Len(seq) - 1) |-> seq[IF i < pos THEN i ELSE i + 1]]

\* C6: in each item store every add returns an id strictly greater than every id
\* the store assigned before (so an id is never reused, also after a remove of the
\* newest item or a reload), and list_for_guild of the item's guild returns the
\* new item at once.
C6_FreshIds ==
    /\ StrictlyIncreasing(sIssued)
    /\ StrictlyIncreasing(tIssued)
    /\ (ret.op = "add" /\ ret.store = "schedule") =>
           /\ ret.item.id = sIssued[Len(sIssued)]
           /\ ret.item.guild_id = ret.arg
           /\ InSeq(ret.item, ScheduleStore_list_for_guild(sItems, ret.arg))
    /\ (ret.op = "add" /\ ret.store = "task") =>
           /\ ret.item.id = tIssued[Len(tIssued)]
           /\ ret.item.guild_id = ret.arg
           /\ InSeq(ret.item, TaskStore_list_for_guild(tItems, ret.arg))

\* an add that follows the removal of the newest item: ids 1 and 2 were assigned,
\* only the item just added is in the store
C6_Witness ==
    /\ ret.op = "add" /\ ret.store = "schedule"
    /\ sIssued = <<1, 2>>
    /\ Len(sItems) = 1 /\ sItems[1].id = 2

\* what a remove step must do to one item store
RemoveEffect(items, items2, nextId, nextId2, disk, disk2, r, loaded) ==
    LET hits == {i \in 1..Len(items) : items[i].id = r.arg}
    IN  /\ r.ok = (hits # {})
        /\ hits = {} =>
               /\ items2 = items /\ nextId2 = nextId /\ disk2 = disk
               /\ ~r.wrote
        /\ hits # {} =>
               /\ items2 = DropAt(items, CHOOSE i \in hits : TRUE)
               /\ \A i \in 1..Len(items2) : items2[i].id # r.arg
               /\ nextId2 = nextId
               /\ r.wrote
               /\ loaded = <<items2, nextId2>>

\* C7: remove(id) of an id that is not in the store returns false, leaves the items
\* and next_id unchanged and does not write the snapshot; remove(id) of an id that
\* is in the store returns true, deletes exactly that item and rewrites the snapshot.
C7_RemoveFrame ==
    [][ /\ (ret'.op = "remove" /\ ret'.store = "schedule") =>
               RemoveEffect(sItems, sItems', sNextId, sNextId', sDisk, sDisk', ret', ScheduleStore_load(sDisk'))
        /\ (ret'.op = "remove" /\ ret'.store = "task") =>
               RemoveEffect(tItems, tItems', tNextId, tNextId', tDisk, tDisk', ret', TaskStore_load(tDisk')) ]_vars

\* a remove of an id that is not there, on a store that holds an item and has
\* already had one removed
C7_Witness ==
    /\ ret.op = "remove" /\ ret.store = "schedule" /\ ~ret.ok
    /\ Len(sItems) = 1
    /\ Len(sIssued) = 2

\* C8: after every completed store operation the snapshot on disk is in step with
\* memory: loading it yields the same items in the same order with the same field
\* values, and the same next_id (the same records for the flag store).
C8_SnapshotInStep ==
    /\ ScheduleStore_load(sDisk) = <<sItems, sNextId>>
    /\ TaskStore_load(tDisk) = <<tItems, tNextId>>
    /\ cDisk.exists
    /\ ConfigStore_load(cDisk) = cData

\* a state with a fired schedule item, a removed schedule item, a task with a
\* deadline and a flag record
C8_Witness ==
    /\ Len(sItems) = 1 /\ sItems[1].last_run_date # None
    /\ sNextId = 3
    /\ Len(tItems) >= 1 /\ tItems[1].deadline # None
    /\ DOMAIN cData # {}

(***************************************************************************)
(* Properties of the schedule-check loop (checked under Spec)              *)
(***************************************************************************)
\* item k of the tick's list has the tick's time and had not run today when the
\* tick started
DueAtStart(k) ==
    /\ sSnap[k].time = sNowTime
    /\ sSnap[k].last_run_date # IsoFormat(sToday)

\* C1: for every item and every date the message is successfully sent at most
\* once on that date, whatever the ticks, delivery outcomes and add / remove
\* commands; a tick never delivers an item whose last_run_date is the tick's
\* date, also when the item's time is the tick's HH:MM.
C1_AtMostOncePerDay ==
    /\ \A i \in Ids, d \in Dates : sendCount[i][d] <= 1
    /\ sPc \in {"resolve", "fetching", "sending"} =>
           LiveLastRun(sItems, sSnap[sIdx]) # IsoFormat(sToday)
    /\ sPc = "returned" =>
           \A k \in 1..Len(sSnap) :
               sSnap[k].last_run_date = IsoFormat(sToday) => attempts[sSnap[k].id] = 0

\* a tick in the item's minute that left alone an item already sent that day
C1_Witness ==
    /\ sPc = "returned"
    /\ \E k \in 1..Len(sSnap) :
           /\ sSnap[k].time = sNowTime
           /\ sSnap[k].last_run_date = IsoFormat(sToday)
           /\ sendCount[sSnap[k].id][sToday] = 1
           /\ attempts[sSnap[k].id] = 0

\* C2: an item that has never fired is sent exactly once in the first tick whose
\* time is its time, when its channel resolves to a text channel and the send
\* succeeds; after that tick its last_run_date is the tick's date, and it is not
\* sent again on that date.
C2_FiresOnce ==
    /\ \A i \in 1..Len(sItems) :
           /\ sItems[i].last_run_date = None => \A d \in Dates : sendCount[sItems[i].id][d] = 0
           /\ \A d \in Dates :
                  sItems[i].last_run_date = IsoFormat(d) =>
                      /\ sendCount[sItems[i].id][d] = 1
                      /\ \A e \in Dates : e > d => sendCount[sItems[i].id][e] = 0
    /\ sPc = "returned" =>
           \A k \in 1..Len(sSnap) :
               (sSnap[k].time = sNowTime /\ sSnap[k].last_run_date = None /\ sSnap[k].id \notin failed) =>
                   /\ attempts[sSnap[k].id] = 1
                   /\ sendCount[sSnap[k].id][sToday] = 1
                   /\ \A i \in 1..Len(sItems) :
                          sItems[i].id = sSnap[k].id => sItems[i].last_run_date = IsoFormat(sToday)

\* the end of the tick that fired a never-fired item that is still in the store
C2_Witness ==
    /\ sPc = "returned"
    /\ \E k \in 1..Len(sSnap) :
           /\ sSnap[k].time = sNowTime
           /\ sSnap[k].last_run_date = None
           /\ sendCount[sSnap[k].id][sToday] = 1
           /\ sSnap[k].id \in StoredIds

C4_FailureLeavesItemDue ==
    /\ [](\A i \in Ids : attempts[i] <= 1)
    /\ [][(failed' # failed /\ failed \subseteq failed') => (sItems' = sItems /\ sDisk' = sDisk)]_vars
    /\ [][(sPc = "sleeping" /\ sPc' \in {"resolve", "returned"}) =>
              \A k \in 1..Len(sSnap') :
                  (sSnap'[k].id \in failed /\ sSnap'[k].time = sNowTime') =>
                      sSnap'[k].last_run_date # IsoFormat(sToday')]_vars
    /\ [](sPc = "returned" => \A k \in 1..Len(sSnap) : DueAtStart(k) => attempts[sSnap[k].id] >= 1)

\* the loop sleeps after a tick in which an item failed, the item is in the store
\* as it was, and the sleep has ended in the item's minute
C4_Witness ==
    /\ sPc = "sleeping"
    /\ now >= sWake
    /\ \E i \in 1..Len(sItems) :
           /\ sItems[i].id \in failed
           /\ sItems[i].last_run_date = None
           /\ sItems[i].time = StrfTime(now)

\* C5: an item is attempted only by a tick whose captured HH:MM is string-equal to
\* its time, and a send counts for the date that tick captured: no later tick
\* sends for a date whose matching minute went by without a tick.
C5_OnlyInMatchingMinute ==
    /\ [](sPc \in {"resolve", "fetching", "sending", "returned"} =>
              \A k \in 1..Len(sSnap) : attempts[sSnap[k].id] >= 1 => sSnap[k].time = StrfTime(sNow))
    /\ [][\A i \in Ids, d \in Dates :
              sendCount'[i][d] # sendCount[i][d] =>
                  /\ d = DateOf(sNow)
                  /\ sNow <= now
                  /\ \E k \in 1..Len(sSnap) : sSnap[k].id = i /\ sSnap[k].time = StrfTime(sNow)]_vars

\* a tick after the item's minute, on a date the item was not sent, leaves it alone
C5_Witness ==
    /\ sPc = "returned"
    /\ MinuteOf(sNow) = 1
    /\ \E k \in 1..Len(sSnap) :
           /\ sSnap[k].time = T0000
           /\ sSnap[k].last_run_date # IsoFormat(sToday)
           /\ attempts[sSnap[k].id] = 0

(***************************************************************************)
(* Properties of the hourly-digest loop (checked under SpecHourly)         *)
(***************************************************************************)
\* the loop is suspended inside its while loop
HourlyPolling == hPc \in {"sleeping", "fetching", "sending"}

\* a step in which _check_hourly_task_list is called
HourlyTick ==
    /\ hPc \in {"waiting", "sleeping"}
    /\ hPc' \in {"sleeping", "guild"}
    /\ hPc' = "sleeping" => hWake' # hWake

\* C9 as the specification states it: every clock hour that starts and ends with
\* the loop polling has its window observed by at least one tick.
C9_EveryHourObserved ==
    \A h \in 0..(MaxHours - 1) :
        (client = "ready" /\ HourlyPolling /\ hSince >= 0 /\ hSince <= h /\ now >= (h + 1) * SecondsPerHour) =>
            observed[h] >= 1

\* C9, amended: a tick observes the window exactly when the time it captures has
\* minute == 0 and second <= 5, and a tick captures its time at least
\* HOURLY_CHECK_SECONDS after the tick before it; nothing makes a tick fall in
\* the window, so an hour through which the loop runs continuously can pass with
\* no tick observing its window.
C9_WindowOnlyWhenTickInIt ==
    /\ [][HourlyTick =>
              /\ hNow' = now
              /\ (observed' # observed) <=> (MinuteOf(hNow') = 0 /\ SecondOf(hNow') <= WINDOW_LAST_SECOND)
              /\ (observed' # observed) => observed' = [observed EXCEPT ![HourIndex(hNow')] = @ + 1]
              /\ hPc = "sleeping" => hNow' >= hNow + HOURLY_CHECK_SECONDS]_vars
    /\ [][~HourlyTick => observed' = observed]_vars

\* a clock hour has started and ended with the loop polling, and no tick has
\* observed its window
C9_Witness ==
    \E h \in 0..(MaxHours - 1) :
        /\ client = "ready"
        /\ hPc = "sleeping"
        /\ hSince >= 0
        /\ hSince <= h
        /\ now >= (h + 1) * SecondsPerHour
        /\ observed[h] = 0

\* C10: for every clock hour at most one tick of the hourly-digest loop passes
\* the window check, and for every guild at most one digest send is made in that
\* hour.
C10_AtMostOncePerHour ==
    /\ \A h \in Hours : observed[h] <= 1
    /\ \A g \in Guilds, h \in Hours : digests[g][h] <= observed[h]

\* an hour whose window one tick observed, with a digest sent to both guilds, and a
\* later tick in minute 0 of the same hour that did not pass the window check
C10_Witness ==
    /\ hPc = "sleeping"
    /\ MinuteOf(hNow) = 0
    /\ SecondOf(hNow) > WINDOW_LAST_SECOND
    /\ observed[HourIndex(hNow)] = 1
    /\ \A g \in Guilds : digests[g][HourIndex(hNow)] = 1

ErrorReplies ==
    {"Schedules must be created in a server.", "Invalid time. Use HH:MM in 24h format.",
     "Could not resolve a text channel.", "Tasks must be created in a server.",
     "Invalid deadline. Use YYYY-MM-DD.", "This can only be used in a server."}

AllStoresUnchanged == UNCHANGED <<storeVars, taskVars, configVars>>

\* C12: a schedule add with a malformed time or no resolvable text channel, a
\* task add with a malformed deadline, a task auto that enables with no
\* resolvable text channel, and each of the three issued outside a guild, replies
\* with an error text and leaves the items, next ids, flag records and the three
\* snapshots as they were; no step that replies with an error text changes them.
C12_RejectedCommandMutatesNothing ==
    /\ [][reply' \in ErrorReplies => AllStoresUnchanged]_vars
    /\ [][\A in \in ScheduleAddInputs :
              (/\ (in[1] = NoGuild \/ in[2] = T2500 \/ (in[3] = NoneInt /\ ~in[4].text))
               /\ CmdScheduleAdd(in[1], in[2], in[3], in[4])) =>
                  reply' \in ErrorReplies /\ AllStoresUnchanged]_vars
    /\ [][\A in \in TaskAddInputs :
              ((in[1] = NoGuild \/ in[3] = D0230) /\ CmdTaskAdd(in[1], in[2], in[3])) =>
                  reply' \in ErrorReplies /\ AllStoresUnchanged]_vars
    /\ [][\A in \in TaskAutoInputs :
              (/\ (in[1] = NoGuild \/ (in[2] /\ in[3] = NoneInt /\ ~in[4].text))
               /\ CmdTaskAuto(in[1], in[2], in[3], in[4])) =>
                  reply' \in ErrorReplies /\ AllStoresUnchanged]_vars

\* a task add has just been refused for its deadline, with items in every store
C12_Witness ==
    /\ reply = "Invalid deadline. Use YYYY-MM-DD."
    /\ sItems # <<>>
    /\ tItems # <<>>
    /\ cData # <<>>

(***************************************************************************)
(* Properties of _schedule_loop's timing                                   *)
(***************************************************************************)
\* a tick of the schedule loop is awaiting get_channel's result, fetch_channel or send
TickInProgress == sPc \in {"resolve", "fetching", "sending"}

\* C15 as stated: ticks start every CHECK_INTERVAL_SECONDS whatever the previous tick
\* takes, so the latest tick never started more than one interval ago, even while a
\* fetch or send is awaited
C15_TicksAtFixedInterval == TickInProgress => now <= sNow + CHECK_INTERVAL_SECONDS

\* C15: the loop awaits a tick before it sleeps, so ticks of one loop never overlap:
\* while a tick is in progress no tick starts (the captured time, date and item list stay
\* as they are), the loop goes to sleep only when the tick has returned, for
\* CHECK_INTERVAL_SECONDS from that moment, and the next tick starts no earlier than the
\* end of that sleep
C15_TicksNeverOverlap ==
    [][/\ TickInProgress => (sNow' = sNow /\ sToday' = sToday /\ sSnap' = sSnap)
       /\ (sPc' = "sleeping" /\ sPc # "sleeping") =>
              (sPc = "returned" /\ sWake' = now + CHECK_INTERVAL_SECONDS)
       /\ (sPc = "sleeping" /\ sPc' \in {"resolve", "returned"}) =>
              (now >= sWake /\ sNow' = now)]_vars

\* a send still awaited two intervals after its tick started, and no later tick
C15_Witness == sPc = "sending" /\ now >= sNow + 2 * CHECK_INTERVAL_SECONDS

(***************************************************************************)
(* Properties of ConfigStore                                               *)
(***************************************************************************)
\* what get_hourly_task_list returns for each guild, given the dict
Settings(data) == [g \in Guilds |-> ConfigStore_get(data, g)]

\* C14: get_hourly_task_list returns the default record for a guild never configured and
\* otherwise the record last given to set_hourly_task_list for it: every guild starts at
\* the default, a set changes the answer for its guild to its record and for no other
\* guild, no other operation (a reload included) changes any answer, and a get returns
\* the current answer, leaving the dict and the snapshot as they were
C14_GetReturnsLastSet ==
    /\ \A g \in Guilds : ConfigStore_get(cData, g) = DefaultSettings
    /\ [][/\ (ret'.op = "set" /\ ret'.store = "config") =>
                 Settings(cData') = [Settings(cData) EXCEPT ![ret'.arg] = ret'.item]
          /\ ~(ret'.op = "set" /\ ret'.store = "config") => Settings(cData') = Settings(cData)
          /\ (ret'.op = "get" /\ ret'.store = "config") =>
                 /\ ret'.item = Settings(cData)[ret'.arg]
                 /\ cData' = cData
                 /\ cDisk' = cDisk]_vars

\* a get for a guild never configured, while another guild is: the default is returned
\* and no record is added
C14_Witness ==
    /\ ret.op = "get"
    /\ ret.store = "config"
    /\ ret.arg = 2
    /\ ret.item = DefaultSettings
    /\ DOMAIN cData = {IntStr(1)}
    /\ cDisk = ConfigStore_save(cData)

(***************************************************************************)
(* Properties of the commands' guild scope                                 *)
(***************************************************************************)
\* the ids of the items of a guild
GuildItemIds(items, guild) == {items[i].id : i \in {j \in 1..Len(items) : items[j].guild_id = guild}}

\* C16: a command acts only on the data of the guild it is run in: a list shows only
\* items of that guild, and a remove run in one guild leaves every other guild's
\* schedules and checklist items as they were
C16_CommandsActOnInvokingGuild ==
    /\ [](ret.op = "list" =>
            \A i \in 1..Len(ret.item) :
                IF ret.store = "schedule"
                THEN ret.item[i].guild_id = ret.arg
                ELSE ret.item[i].name \in GuildItemIds(tItems, ret.arg))
    /\ [][\A guild \in Guilds, id \in Ids : \A other \in Guilds \ {guild} :
            /\ CmdScheduleRemoveIn(guild, id) =>
                   ScheduleStore_list_for_guild(sItems', other) = ScheduleStore_list_for_guild(sItems, other)
            /\ CmdTaskRemoveIn(guild, id) =>
                   TaskStore_list_for_guild(tItems', other) = TaskStore_list_for_guild(tItems, other)]_vars

(***************************************************************************)
(* Properties of the digest's conditions and destination                   *)
(***************************************************************************)
\* C17: a digest is sent for a guild only while its flag is enabled and its checklist
\* is not empty, to the configured channel when a channel id is set and to the guild's
\* system channel when none is set; a failed fetch of the configured channel skips the
\* guild; a guild whose flag a completed command has disabled gets no digest
C17_DigestOnlyWhenEnabled ==
    /\ hEvent.kind = "send" =>
           LET settings == ConfigStore_get(cData, hEvent.guild)
           IN  /\ settings.enabled
               /\ TaskStore_list_for_guild(tItems, hEvent.guild) # <<>>
               /\ hEvent.dest = IF settings.channel_id # NoneInt THEN "configured" ELSE "system"
               /\ hEvent.dest = "system" => SystemChannel(hEvent.guild) # "none"
    /\ hEvent.kind \in {"fetchfail", "nochannel", "disabled", "empty"} => hPc # "sending"

(***************************************************************************)
(* Properties of the loops' start and end                                  *)
(***************************************************************************)
\* nothing was sent and no hourly window was observed
NothingSent ==
    /\ \A i \in Ids, d \in Dates : sendCount[i][d] = 0
    /\ \A g \in Guilds, h \in Hours : digests[g][h] = 0
    /\ \A h \in Hours : observed[h] = 0

IsHHMM(time) ==
    /\ Len(time) = 5
    /\ time[3] = ":"
    /\ AllDigits(SubSeq(time, 1, 2))
    /\ AllDigits(SubSeq(time, 4, 5))
    /\ NumVal(SubSeq(time, 1, 2)) <= 23
    /\ NumVal(SubSeq(time, 4, 5)) <= 59

\* the minutes of a day during which the scheduler's formatted time equals time
MatchingMinutes(time) ==
    {m \in 0..((SecondsPerDay \div SecondsPerMinute) - 1) : StrfTime(m * SecondsPerMinute) = time}

\* C19: the time of every schedule stored by /schedule add is a two-digit HH:MM string,
\* equal to the scheduler's formatted time during exactly one minute of each day
C19_StoredTimeIsHHMM ==
    \A i \in 1..Len(sItems) :
        /\ IsHHMM(sItems[i].time)
        /\ Cardinality(MatchingMinutes(sItems[i].time)) = 1

(***************************************************************************)
(* Properties of last_run_date                                             *)
(***************************************************************************)
\* the day of January an isoformat date names
DayOf(iso) == NumVal(SubSeq(iso, 9, 10))

\* the items of the store with the id (ids are unique: none or one)
WithId(items, id) == {items[i] : i \in {j \in 1..Len(items) : items[j].id = id}}

\* C20: an item's last_run_date is unset exactly until its first successful send; it
\* changes only in the step in which a send of that item succeeded, to the date the
\* sending tick captured, and never to an earlier date; the clock the ticks capture
\* never goes back; no other step (add, remove of another item, restart) changes it
C20_LastRunNeverDecreases ==
    /\ [](\A i \in 1..Len(sItems) :
            sItems[i].last_run_date = None <=> \A d \in Dates : sendCount[sItems[i].id][d] = 0)
    /\ [][/\ now' >= now
          /\ (sPc \in {"waiting", "sleeping"} /\ sPc' \in {"resolve", "returned"}) => sToday' = DateOf(now)
          /\ \A id \in Ids : \A before \in WithId(sItems, id) : \A after \in WithId(sItems', id) :
                 before.last_run_date # after.last_run_date =>
                     /\ sPc = "sending"
                     /\ sSnap[sIdx].id = id
                     /\ sendCount'[id][sToday] = sendCount[id][sToday] + 1
                     /\ after.last_run_date = IsoFormat(sToday)
                     /\ before.last_run_date # None => DayOf(before.last_run_date) < sToday]_vars

\* an item sent on the first date and again on the second, now marked with the second
C20_Witness ==
    \E i \in 1..Len(sItems) :
        /\ sendCount[sItems[i].id][1] = 1
        /\ sendCount[sItems[i].id][2] = 1
        /\ sItems[i].last_run_date = IsoFormat(2)

(***************************************************************************)
(* Properties of build_task_embed                                          *)
(***************************************************************************)
\* the calendar date a stored deadline names, as year, month, day
DateParts(deadline) ==
    LET j == CHOOSE j \in 6..Len(deadline) : deadline[j] = "-"
    IN  <<Num4(SubSeq(deadline, 1, 4)), NumVal(SubSeq(deadline, 6, j - 1)),
          NumVal(SubSeq(deadline, j + 1, Len(deadline)))>>

\* a comes strictly before b: earlier deadline (no deadline last), then lower urgency
\* rank, then lower id
ComesBefore(a, b) ==
    LET da == IF a.deadline = None THEN <<10000, 0, 0>> ELSE DateParts(a.deadline)
        db == IF b.deadline = None THEN <<10000, 0, 0>> ELSE DateParts(b.deadline)
        DateLess == \/ da[1] < db[1]
                    \/ da[1] = db[1] /\ da[2] < db[2]
                    \/ da[1] = db[1] /\ da[2] = db[2] /\ da[3] < db[3]
    IN  \/ DateLess
        \/ da = db /\ UrgencyRank(a.urgency) < UrgencyRank(b.urgency)
        \/ da = db /\ UrgencyRank(a.urgency) = UrgencyRank(b.urgency) /\ a.id < b.id

\* the stored item an embed field shows
ShownItem(field) == CHOOSE it \in {tItems[i] : i \in 1..Len(tItems)} : it.id = field.name

\* the embed shows each of the guild's items once
ShowsEachOnce(fields, items) ==
    /\ Len(fields) = Len(items)
    /\ \A i \in 1..Len(items) : \E j \in 1..Len(fields) : fields[j].name = items[i].id

\* C13: the embed of a guild's checklist shows each item once, by deadline ascending
\* with the items without a deadline last, then by urgency rank high < medium < low <
\* other, then by id ascending
C13_SortedByDeadlineUrgencyId ==
    (ret.op = "list" /\ ret.store = "task") =>
        /\ ShowsEachOnce(ret.item, TaskStore_list_for_guild(tItems, ret.arg))
        /\ \A i, j \in 1..Len(ret.item) :
               i < j => ComesBefore(ShownItem(ret.item[i]), ShownItem(ret.item[j]))

====
